---- MODULE Spec2Model ----
(***************************************************************************)
(* A model of inspector.py: extraction of the code objects reachable from  *)
(* a function, the map code object => function with its ambiguous set,     *)
(* the Frame tree over a function's closure, and the decorator chains.     *)
(*                                                                         *)
(* Code objects are the strings of Codes; function objects live in the     *)
(* arena funs and are named by their index in it (their identity).  A      *)
(* closure cell holds NotCallable or the index of a function.              *)
(***************************************************************************)
EXTENDS Integers, Sequences, FiniteSets, TLC

VARIABLES
    funs,               \* the function objects: <<[code, closure]>>
    dict_order,         \* the iteration order of a dict over its keys
    \* map_code_objects
    functions,          \* its argument
    fi,                 \* index of the function the outer loop is at
    pending,            \* what extract_code_objects has still to yield
    code_to_function,   \* dict: code -> function
    ambiguous_code,     \* set of codes
    pc,
    \* Frame
    frame,              \* the Frame the methods are called on (self)
    op,                 \* the call last made
    arg,                \* its argument
    result,             \* what it has yielded
    all_frames,         \* find_decorator: the queue
    visited,            \* find_decorator: the frames popped so far
    previous,           \* the chains of an earlier call of unwrap
    \* the recursion of extract_code_objects and of Frame.__init__
    stack               \* the calls in progress, the outermost first

vars == <<funs, dict_order, functions, fi, pending, code_to_function,
          ambiguous_code, pc, frame, op, arg, result, all_frames, visited,
          previous, stack>>

mapVars == <<functions, fi, pending, code_to_function, ambiguous_code, pc>>
frameVars == <<frame, op, arg, result, all_frames, visited, previous, stack>>

----------------------------------------------------------------------------
(* Bounds *)

\* functions created over the fixture, each closing over earlier ones
MaxClosures == 1
\* longest list of functions handed to map_code_objects / unwrap_decorators
MaxDecorators == 2

----------------------------------------------------------------------------
(* The inspected program: its code objects *)

Codes == {"decorator1", "wrapped1", "decorator2", "wrapped2", "helper",
          "alt_helper", "base_fun", "dual_fun"}

\* code.co_consts: the constants of a code object, nested code objects among
\* them (decorator2 is shaped as example1's decorator: a wrapper holding a
\* nested function, beside a helper)
co_consts(code) ==
    CASE code = "decorator1" -> <<"None", "wrapped1">>
      [] code = "decorator2" -> <<"None", "wrapped2", "helper">>
      [] code = "wrapped2"   -> <<"alt_helper", "42">>
      [] code = "wrapped1"   -> <<"42">>
      [] OTHER               -> <<"None">>

\* code.co_freevars: the names a code object takes from its closure
co_freevars(code) ==
    CASE code \in {"wrapped1", "wrapped2"} -> <<"decorated_fun">>
      [] code = "dual_fun" -> <<"alt_enclosed_fun", "enclosed_fun">>
      [] OTHER -> <<>>

\* isinstance(e, code.__class__)
IsCode(e) == e \in Codes

\* a cell content that is not callable
NotCallable == 0

\* callable(cell_value)
callable(cell_value) == cell_value # NotCallable

----------------------------------------------------------------------------
(* The function objects *)

\* decorator1, decorator2, base_fun, decorated1 = decorator1(base_fun),
\* decorated2 = decorator2(base_fun)
Fixture ==
    << [code |-> "decorator1", closure |-> <<>>],
       [code |-> "decorator2", closure |-> <<>>],
       [code |-> "base_fun",   closure |-> <<>>],
       [code |-> "wrapped1",   closure |-> <<3>>],
       [code |-> "wrapped2",   closure |-> <<3>>] >>

ClosureCodes == {c \in Codes : co_freevars(c) # <<>>}

\* what a cell of function number h can hold: a value that is not callable,
\* or a function that exists already (so the captures are acyclic) other
\* than the two decorators, which are applied, not captured
CellContents(h) == {NotCallable} \cup (1..(h-1) \ {1, 2})

\* the functions that can be created as number h of the arena: a code with
\* free variables and a closure of as many cells.  The functions created
\* over the fixture are those the last one is built from: each closes over
\* the one created before it.
Closures(h) ==
    UNION { { [code |-> c, closure |-> cl] :
                cl \in { x \in [1..Len(co_freevars(c)) -> CellContents(h)] :
                            h > Len(Fixture) + 1 => \E i \in DOMAIN x : x[i] = h - 1 } } :
            c \in ClosureCodes }

RECURSIVE Worlds(_)
Worlds(n) ==
    IF n = 0 THEN {Fixture}
    ELSE { Append(w, f) : w \in Worlds(n-1), f \in Closures(Len(Fixture) + n) }

\* the lists of at most k functions of the arena fs
FunctionLists(fs, k) == UNION { [1..n -> 1..Len(fs)] : n \in 0..k }

----------------------------------------------------------------------------
(* dict *)

EmptyDict == [k \in {} |-> 0]
DictSet(d, k, v) == [x \in DOMAIN d \cup {k} |-> IF x = k THEN v ELSE d[x]]
DictDel(d, k) == [x \in DOMAIN d \ {k} |-> d[x]]

----------------------------------------------------------------------------
(* extract_code_objects *)

\* the while loop: pop the first pending code, yield it, queue its nested codes
RECURSIVE ExtractPending(_)
ExtractPending(pend) ==
    IF pend = <<>> THEN <<>>
    ELSE LET code == Head(pend)
         IN  <<code>> \o ExtractPending(Tail(pend) \o SelectSeq(co_consts(code), IsCode))

RECURSIVE extract_code_objects(_)
RECURSIVE ExtractClosure(_, _)

\* the loop over function.__closure__, from cell i on
ExtractClosure(closure, i) ==
    IF i > Len(closure) THEN <<>>
    ELSE (IF callable(closure[i]) THEN extract_code_objects(closure[i]) ELSE <<>>)
         \o ExtractClosure(closure, i + 1)

\* everything the generator yields, in order
extract_code_objects(function) ==
    ExtractPending(<<funs[function].code>>)
    \o ExtractClosure(funs[function].closure, 1)

Range(s) == {s[i] : i \in DOMAIN s}

----------------------------------------------------------------------------
(* map_code_objects *)

\* the mutants of the loop body
MapStepFirstWins(m, amb, code, function) ==
    IF code \in amb \/ code \in DOMAIN m THEN <<m, amb>>
    ELSE <<DictSet(m, code, function), amb>>

MapStepLastWins(m, amb, code, function) ==
    IF code \in amb THEN <<m, amb>>
    ELSE <<DictSet(m, code, function), amb>>

MapStepNoDel(m, amb, code, function) ==
    IF code \in amb THEN <<m, amb>>
    ELSE IF code \in DOMAIN m THEN <<m, amb \cup {code}>>
    ELSE <<DictSet(m, code, function), amb>>

\* the body of the inner loop, for one yielded code: <<code_to_function,
\* ambiguous_code>> after it
MapStep(m, amb, code, function) ==
    IF code \in amb THEN <<m, amb>>
    ELSE IF code \in DOMAIN m THEN <<DictDel(m, code), amb \cup {code}>>
    ELSE <<DictSet(m, code, function), amb>>

\* the inner loop over the codes of one function
RECURSIVE MapCodes(_, _, _)
MapCodes(acc, codes, function) ==
    IF codes = <<>> THEN acc
    ELSE MapCodes(MapStep(acc[1], acc[2], Head(codes), function), Tail(codes), function)

\* the outer loop
RECURSIVE MapFunctions(_, _)
MapFunctions(acc, fns) ==
    IF fns = <<>> THEN acc
    ELSE MapFunctions(MapCodes(acc, extract_code_objects(Head(fns)), Head(fns)), Tail(fns))

\* map_code_objects(functions) run to its return: <<code_to_function, ambiguous_code>>
map_code_objects(fns) == MapFunctions(<<EmptyDict, {}>>, fns)

\* for function in functions: the next function, its generator started
ForFunction ==
    /\ pc = "run"
    /\ pending = <<>>
    /\ fi < Len(functions)
    /\ fi' = fi + 1
    /\ pending' = extract_code_objects(functions[fi + 1])
    /\ UNCHANGED <<funs, dict_order, functions, code_to_function, ambiguous_code, pc>>
    /\ UNCHANGED frameVars

\* for code in extract_code_objects(function): the body, for the next code
ForCode ==
    /\ pc = "run"
    /\ pending # <<>>
    /\ LET r == MapStep(code_to_function, ambiguous_code, Head(pending), functions[fi])
       IN  /\ code_to_function' = r[1]
           /\ ambiguous_code' = r[2]
    /\ pending' = Tail(pending)
    /\ UNCHANGED <<funs, dict_order, functions, fi, pc>>
    /\ UNCHANGED frameVars

\* return code_to_function, ambiguous_code
Return ==
    /\ pc = "run"
    /\ pending = <<>>
    /\ fi = Len(functions)
    /\ pc' = "done"
    /\ UNCHANGED <<funs, dict_order, functions, fi, pending, code_to_function, ambiguous_code>>
    /\ UNCHANGED frameVars

----------------------------------------------------------------------------
(* Claims about map_code_objects *)

\* the distinct functions of the argument that code is reachable from
CandidatesReaching(code) ==
    { functions[i] : i \in { j \in DOMAIN functions :
                              code \in Range(extract_code_objects(functions[j])) } }

\* the codes yielded so far by the generators of the loop
YieldedSoFar ==
    UNION { Range(extract_code_objects(functions[j])) : j \in 1..(fi - 1) }
    \cup (IF fi = 0 THEN {}
          ELSE LET ex == extract_code_objects(functions[fi])
               IN  Range(SubSeq(ex, 1, Len(ex) - Len(pending))))

\* the orderings of a list
Perms(s) == { [i \in 1..Len(s) |-> s[p[i]]] : p \in Permutations(1..Len(s)) }

\* C1: in the returned result a code is a key of the map, mapped to candidate
\* C, exactly when C is the only candidate it is reachable from, and it is in
\* the ambiguous set exactly when it is reachable from two or more distinct
\* candidates (also when one candidate reaches it several times).
C1_OriginIffSingleCandidate ==
    pc = "done" =>
        \A code \in Codes :
            /\ code \in DOMAIN code_to_function
                   <=> Cardinality(CandidatesReaching(code)) = 1
            /\ code \in DOMAIN code_to_function
                   => CandidatesReaching(code) = {code_to_function[code]}
            /\ code \in ambiguous_code
                   <=> Cardinality(CandidatesReaching(code)) >= 2

\* C2: at every step of map_code_objects no code is both a key of the map and
\* a member of the ambiguous set, and every code yielded so far is in one of
\* the two.
C2_MapAndAmbiguousDisjoint ==
    /\ DOMAIN code_to_function \cap ambiguous_code = {}
    /\ YieldedSoFar \subseteq DOMAIN code_to_function \cup ambiguous_code

C2_Witness ==
    /\ pc = "done"
    /\ DOMAIN code_to_function # {}
    /\ ambiguous_code # {}

\* C3: the returned map and ambiguous set are those of every reordering of
\* the argument.
C3_OrderIndependent ==
    pc = "done" =>
        \A p \in Perms(functions) :
            map_code_objects(p) = <<code_to_function, ambiguous_code>>

C3_Witness ==
    /\ pc = "done"
    /\ Len(functions) = 2
    /\ functions[1] # functions[2]
    /\ DOMAIN code_to_function # {}
    /\ ambiguous_code # {}

----------------------------------------------------------------------------
(* Frame *)

None == 0

\* dict.values(): the values in the iteration order of the keys
DictValues(d) ==
    LET keys == SelectSeq(dict_order, LAMBDA k : k \in DOMAIN d)
    IN  [i \in 1..Len(keys) |-> d[keys[i]]]

\* Frame._get_cells: the (name, cell) pairs of self.fun, as the positions of
\* zip(co_freevars, __closure__)
get_cells(fun) ==
    IF funs[fun].closure # <<>>
    THEN 1..(IF Len(co_freevars(funs[fun].code)) < Len(funs[fun].closure)
             THEN Len(co_freevars(funs[fun].code)) ELSE Len(funs[fun].closure))
    ELSE {}

\* Frame(fun): the object built, and the Frames built for its subframes.
\* id is the identity of the new object; a subframe's is its parent's
\* followed by the cell name.
RECURSIVE Frame(_, _)

\* a mutant: no subframe is built
FrameNoSubframes(fun, id) ==
    LET names == co_freevars(funs[fun].code)
        closure == funs[fun].closure
        cells == get_cells(fun)
        cell(n) == closure[CHOOSE i \in cells : names[i] = n]
    IN  [ id |-> id,
          fun |-> fun,
          context |-> [n \in {names[i] : i \in cells} |-> cell(n)],
          subframes |-> [n \in {} |-> 0] ]

Frame(fun, id) ==
    LET names == co_freevars(funs[fun].code)
        closure == funs[fun].closure
        cells == get_cells(fun)
        cell(n) == closure[CHOOSE i \in cells : names[i] = n]
    IN  [ id |-> id,
          fun |-> fun,
          context |-> [n \in {names[i] : i \in cells} |-> cell(n)],
          subframes |-> [n \in {names[i] : i \in {j \in cells : callable(closure[j])}}
                           |-> Frame(cell(n), Append(id, n))] ]

\* Frame defines no __eq__: == on two Frames is object identity
FrameEq(a, b) == a.id = b.id

\* Frame.unwrap: the chains it yields, in order
RECURSIVE unwrap(_)
RECURSIVE UnwrapSubframes(_, _)

\* a mutant: only the first subframe is followed
UnwrapFirstSubframe(first_frame, subs) ==
    IF subs = <<>> THEN <<>>
    ELSE LET subchains == unwrap(Head(subs))
         IN  [i \in 1..Len(subchains) |-> <<first_frame>> \o subchains[i]]

\* the loop over self.subframes.values()
UnwrapSubframes(first_frame, subs) ==
    IF subs = <<>> THEN <<>>
    ELSE LET subchains == unwrap(Head(subs))
         IN  [i \in 1..Len(subchains) |-> <<first_frame>> \o subchains[i]]
             \o UnwrapSubframes(first_frame, Tail(subs))

unwrap(self) ==
    IF DOMAIN self.subframes # {}
    THEN UnwrapSubframes(self, DictValues(self.subframes))
    ELSE << << Frame(self.fun, Append(self.id, "Frame(self.fun)")) >> >>

\* the first of codes that is a key of code_to_decorator: <<that code>>, or <<>>
RECURSIVE FirstIn(_, _)
FirstIn(codes, known) ==
    IF codes = <<>> THEN <<>>
    ELSE IF Head(codes) \in known THEN <<Head(codes)>>
    ELSE FirstIn(Tail(codes), known)

\* a mutant: only the frame's own code is looked up, not what it captures
find_decorator_own_code(fr, code_to_decorator) ==
    IF funs[fr.fun].code \in DOMAIN code_to_decorator
    THEN <<fr, code_to_decorator[funs[fr.fun].code]>>
    ELSE <<fr, None>>

\* unwrap_decorators' local find_decorator(frame)
find_decorator_of(fr, code_to_decorator) ==
    LET hit == FirstIn(extract_code_objects(fr.fun), DOMAIN code_to_decorator)
    IN  IF hit # <<>> THEN <<fr, code_to_decorator[hit[1]]>> ELSE <<fr, None>>

\* Frame.unwrap_decorators: the annotated chains it yields, in order
unwrap_decorators(self, decorators) ==
    LET code_to_decorator == map_code_objects(decorators)[1]
        chains == unwrap(self)
    IN  [i \in 1..Len(chains) |->
            [j \in 1..Len(chains[i]) |-> find_decorator_of(chains[i][j], code_to_decorator)]]

\* a mutant: the subframes are pushed in front of the queue (depth first)
FindStepDepthFirst(q, found, codes) ==
    LET fr == Head(q)
        hit == FirstIn(extract_code_objects(fr.fun), codes)
    IN  << DictValues(fr.subframes) \o Tail(q),
           IF hit # <<>> THEN Append(found, <<fr, hit[1]>>) ELSE found >>

\* a mutant: only the codes of the frame's own body are looked up, not
\* those of the functions it captures
FindStepOwnBody(q, found, codes) ==
    LET fr == Head(q)
        hit == FirstIn(ExtractPending(<<funs[fr.fun].code>>), codes)
    IN  << Tail(q) \o DictValues(fr.subframes),
           IF hit # <<>> THEN Append(found, <<fr, hit[1]>>) ELSE found >>

\* Frame.find_decorator, one turn of the while loop on the queue q with the
\* yields so far found: <<queue, found>> after it
FindStep(q, found, codes) ==
    LET fr == Head(q)
        hit == FirstIn(extract_code_objects(fr.fun), codes)
    IN  << Tail(q) \o DictValues(fr.subframes),
           IF hit # <<>> THEN Append(found, <<fr, hit[1]>>) ELSE found >>

\* code.co_name: the name a code object was declared with
co_name(code) == code

\* the codes of the wrappers decorated with functools.wraps(decorated_fun);
\* wrapped2 is left as it is declared
Wrapping == {"wrapped1"}

\* function.__name__: the name of its code, unless functools.wraps gave it
\* the name of the function it wraps
RECURSIVE fun_name(_)
fun_name(function) ==
    LET code == funs[function].code
        closure == funs[function].closure
    IN  IF code \in Wrapping /\ callable(closure[1])
        THEN fun_name(closure[1])
        ELSE co_name(code)

\* a mutant: the two names the other way round
function_name_swapped(self) ==
    IF co_name(funs[self.fun].code) # fun_name(self.fun)
    THEN <<"<", co_name(funs[self.fun].code), "/", fun_name(self.fun), ">">>
    ELSE <<fun_name(self.fun)>>

\* Frame.function_name; the text '<%s/%s>' % (a, b) as its pieces
function_name(self) ==
    IF co_name(funs[self.fun].code) # fun_name(self.fun)
    THEN <<"<", fun_name(self.fun), "/", co_name(funs[self.fun].code), ">">>
    ELSE <<fun_name(self.fun)>>

\* self.function_name
GetFunctionName ==
    /\ op = "none"
    /\ op' = "function_name"
    /\ arg' = <<>>
    /\ result' = function_name(frame)
    /\ all_frames' = <<>>
    /\ visited' = <<>>
    /\ UNCHANGED <<funs, dict_order, frame, previous, stack>>
    /\ UNCHANGED mapVars

\* Frame(fun) called once more, on any function
CallFrame ==
    \E fun \in 1..Len(funs) :
        /\ op = "none"
        /\ op' = "Frame"
        /\ arg' = <<fun>>
        /\ result' = <<Frame(fun, <<"g">>)>>
        /\ all_frames' = <<>>
        /\ visited' = <<>>
        /\ UNCHANGED <<funs, dict_order, frame, previous, stack>>
        /\ UNCHANGED mapVars

\* the functions of the chains of unwrap, position by position
ChainFuns(chains) ==
    [i \in 1..Len(chains) |-> [j \in 1..Len(chains[i]) |-> chains[i][j].fun]]

\* a mutant: unwrap pops the subframes it follows
CallUnwrapConsuming ==
    /\ op = "none"
    /\ op' = "unwrap"
    /\ arg' = <<>>
    /\ result' = unwrap(frame)
    /\ frame' = [frame EXCEPT !.subframes = EmptyDict]
    /\ all_frames' = <<>>
    /\ visited' = <<>>
    /\ UNCHANGED <<funs, dict_order, previous, stack>>
    /\ UNCHANGED mapVars

\* list(self.unwrap())
CallUnwrap ==
    /\ op = "none"
    /\ op' = "unwrap"
    /\ arg' = <<>>
    /\ result' = unwrap(frame)
    /\ all_frames' = <<>>
    /\ visited' = <<>>
    /\ UNCHANGED <<funs, dict_order, frame, previous, stack>>
    /\ UNCHANGED mapVars

\* list(self.unwrap_decorators(decorators))
CallUnwrapDecorators ==
    \E decorators \in FunctionLists(funs, MaxDecorators) :
        /\ op = "none"
        /\ op' = "unwrap_decorators"
        /\ arg' = decorators
        /\ result' = unwrap_decorators(frame, decorators)
        /\ all_frames' = <<>>
        /\ visited' = <<>>
        /\ UNCHANGED <<funs, dict_order, frame, previous, stack>>
        /\ UNCHANGED mapVars

\* self.find_decorator(decorator), up to its while loop
CallFindDecorator ==
    \E decorator \in 1..Len(funs) :
        /\ op = "none"
        /\ op' = "find_decorator"
        /\ arg' = <<decorator>>
        /\ result' = <<>>
        /\ all_frames' = <<frame>>
        /\ visited' = <<>>
        /\ UNCHANGED <<funs, dict_order, frame, previous, stack>>
        /\ UNCHANGED mapVars

\* the caller is done with what the call yielded
Drop ==
    /\ op # "none"
    /\ op' = "none"
    /\ arg' = <<>>
    /\ result' = <<>>
    /\ all_frames' = <<>>
    /\ visited' = <<>>
    /\ UNCHANGED <<funs, dict_order, frame, previous, stack>>
    /\ UNCHANGED mapVars

\* the caller is done with what the call yielded, and keeps the functions
\* of the chains unwrap gave
Consumed ==
    /\ op # "none"
    /\ all_frames = <<>>
    /\ previous' = IF op = "unwrap" THEN ChainFuns(result) ELSE previous
    /\ op' = "none"
    /\ arg' = <<>>
    /\ result' = <<>>
    /\ visited' = <<>>
    /\ UNCHANGED <<funs, dict_order, frame, all_frames, stack>>
    /\ UNCHANGED mapVars

\* one turn of find_decorator's while loop
FindDecoratorStep ==
    /\ op = "find_decorator"
    /\ all_frames # <<>>
    /\ LET r == FindStep(all_frames, result, Range(extract_code_objects(arg[1])))
       IN  /\ all_frames' = r[1]
           /\ result' = r[2]
    /\ visited' = Append(visited, Head(all_frames))
    /\ UNCHANGED <<funs, dict_order, frame, previous, op, arg, stack>>
    /\ UNCHANGED mapVars

----------------------------------------------------------------------------
(* The recursions of extract_code_objects and of Frame.__init__, call by call *)

\* the depth of calls at which the interpreter raises RecursionError: beyond
\* the depth of every acyclic capture graph of the arena
RecursionLimit == MaxClosures + 4

\* the call in progress
Top == stack[Len(stack)]

\* the callers of the call in progress
Callers == SubSeq(stack, 1, Len(stack) - 1)

\* a mutant: a code that was yielded already is not yielded again
ExtractEnterOnce(yielded, function) ==
    yielded \o SelectSeq(ExtractPending(<<funs[function].code>>),
                         LAMBDA c : c \notin Range(yielded))

\* extract_code_objects(function) from its entry to the end of its while
\* loop: what has been yielded, after what was yielded before
ExtractEnter(yielded, function) ==
    yielded \o ExtractPending(<<funs[function].code>>)

\* list(extract_code_objects(function)), up to the loop over the closure
CallExtract ==
    \E function \in 1..Len(funs) :
        /\ op = "none"
        /\ op' = "extract_code_objects"
        /\ arg' = <<function>>
        /\ stack' = << [fun |-> function, cell |-> 1] >>
        /\ result' = ExtractEnter(<<>>, function)
        /\ pc' = "run"
        /\ UNCHANGED <<funs, dict_order, frame, previous, all_frames, visited>>
        /\ UNCHANGED <<functions, fi, pending, code_to_function, ambiguous_code>>

\* for cell in function.__closure__: one cell; a callable cell_value is
\* extracted by a call of extract_code_objects one level deeper
ExtractCell ==
    /\ op = "extract_code_objects"
    /\ pc = "run"
    /\ stack # <<>>
    /\ Top.cell <= Len(funs[Top.fun].closure)
    /\ LET cell_value == funs[Top.fun].closure[Top.cell]
           next == Append(Callers, [Top EXCEPT !.cell = @ + 1])
       IN  IF callable(cell_value)
           THEN /\ Len(stack) < RecursionLimit
                /\ stack' = Append(next, [fun |-> cell_value, cell |-> 1])
                /\ result' = ExtractEnter(result, cell_value)
           ELSE /\ stack' = next
                /\ result' = result
    /\ UNCHANGED <<funs, dict_order, frame, previous, op, arg, all_frames, visited>>
    /\ UNCHANGED mapVars

\* the generator of the call in progress is exhausted
ExtractReturn ==
    /\ op = "extract_code_objects"
    /\ pc = "run"
    /\ stack # <<>>
    /\ Top.cell > Len(funs[Top.fun].closure)
    /\ stack' = Callers
    /\ pc' = IF Callers = <<>> THEN "done" ELSE "run"
    /\ UNCHANGED <<funs, dict_order, frame, previous, op, arg, result, all_frames, visited>>
    /\ UNCHANGED <<functions, fi, pending, code_to_function, ambiguous_code>>

\* Frame.__init__ up to its loop: self.fun, self.subframes, self.context
NewFrame(fun, id) ==
    [id |-> id, fun |-> fun, context |-> EmptyDict, subframes |-> EmptyDict]

\* Frame(fun), up to the loop over the cells
CallInit ==
    \E fun \in 1..Len(funs) :
        /\ op = "none"
        /\ op' = "Frame.__init__"
        /\ arg' = <<fun>>
        /\ stack' = << [fun |-> fun, cell |-> 1, self |-> NewFrame(fun, <<"h">>)] >>
        /\ result' = <<>>
        /\ pc' = "run"
        /\ UNCHANGED <<funs, dict_order, frame, previous, all_frames, visited>>
        /\ UNCHANGED <<functions, fi, pending, code_to_function, ambiguous_code>>

\* for cell_name, cell in self._get_cells(): one cell, stored in context; for
\* a callable cell_value Frame(cell_value) is called, one level deeper
InitCell ==
    /\ op = "Frame.__init__"
    /\ pc = "run"
    /\ stack # <<>>
    /\ Top.cell \in get_cells(Top.fun)
    /\ LET cell_name == co_freevars(funs[Top.fun].code)[Top.cell]
           cell_value == funs[Top.fun].closure[Top.cell]
           self == [Top.self EXCEPT !.context = DictSet(@, cell_name, cell_value)]
       IN  IF callable(cell_value)
           THEN /\ Len(stack) < RecursionLimit
                /\ stack' = Append(Append(Callers, [Top EXCEPT !.self = self]),
                                   [fun |-> cell_value, cell |-> 1,
                                    self |-> NewFrame(cell_value, Append(self.id, cell_name))])
           ELSE stack' = Append(Callers, [Top EXCEPT !.self = self, !.cell = @ + 1])
    /\ UNCHANGED <<funs, dict_order, frame, previous, op, arg, result, all_frames, visited>>
    /\ UNCHANGED mapVars

\* the loop of the call in progress is over: the Frame is built, and becomes
\* self.subframes[cell_name] of its caller
InitReturn ==
    /\ op = "Frame.__init__"
    /\ pc = "run"
    /\ stack # <<>>
    /\ Top.cell \notin get_cells(Top.fun)
    /\ IF Callers = <<>>
       THEN /\ stack' = <<>>
            /\ result' = <<Top.self>>
            /\ pc' = "done"
       ELSE LET caller == Callers[Len(Callers)]
                cell_name == co_freevars(funs[caller.fun].code)[caller.cell]
            IN  /\ stack' = [Callers EXCEPT ![Len(Callers)] =
                                [caller EXCEPT !.self.subframes = DictSet(@, cell_name, Top.self),
                                               !.cell = @ + 1]]
                /\ result' = result
                /\ pc' = "run"
    /\ UNCHANGED <<funs, dict_order, frame, previous, op, arg, all_frames, visited>>
    /\ UNCHANGED <<functions, fi, pending, code_to_function, ambiguous_code>>

\* the call a callable cell asks for is one too deep: the interpreter raises
\* RecursionError (neither function guards its recursion)
RecursionError ==
    /\ op \in {"extract_code_objects", "Frame.__init__"}
    /\ pc = "run"
    /\ stack # <<>>
    /\ Top.cell <= Len(funs[Top.fun].closure)
    /\ callable(funs[Top.fun].closure[Top.cell])
    /\ Len(stack) >= RecursionLimit
    /\ pc' = "RecursionError"
    /\ UNCHANGED <<funs, dict_order, frame, previous, op, arg, result, all_frames, visited, stack>>
    /\ UNCHANGED <<functions, fi, pending, code_to_function, ambiguous_code>>

----------------------------------------------------------------------------
(* Claims about Frame *)

Min(S) == CHOOSE x \in S : \A y \in S : x <= y

\* the frames of the tree rooted at fr
RECURSIVE AllFrames(_)
AllFrames(fr) ==
    {fr} \cup UNION { AllFrames(fr.subframes[n]) : n \in DOMAIN fr.subframes }

\* a frame with no subframes
Terminal(fr) == DOMAIN fr.subframes = {}

\* the identities of the terminal frames of the tree: one per path from the root
TerminalIds(fr) == { t.id : t \in {x \in AllFrames(fr) : Terminal(x)} }

\* the tree level by level, each level in the order of its parents' dicts
RECURSIVE LevelOrder(_)
LevelOrder(level) ==
    IF level = <<>> THEN <<>>
    ELSE LET RECURSIVE Children(_)
             Children(frs) ==
                 IF frs = <<>> THEN <<>>
                 ELSE DictValues(Head(frs).subframes) \o Children(Tail(frs))
         IN  level \o LevelOrder(Children(level))

\* the codes reachable from function f
CodeSet(f) == Range(extract_code_objects(f))

\* the code of function w is defined in the body of function d
DefinedIn(w, d) == funs[w].code \in Range(SelectSeq(co_consts(funs[d].code), IsCode))

\* function w closes over function x and nothing else
Wraps(w, x) == funs[w].closure = <<x>> /\ callable(x)

\* root is d1(d2(base)) for two independent wrapping decorators d1 and d2
Chained(root, d1, d2) ==
    /\ funs[root].closure # <<>>
    /\ LET mid == funs[root].closure[1]
       IN  /\ Wraps(root, mid)
           /\ funs[mid].closure # <<>>
           /\ LET base == funs[mid].closure[1]
              IN  /\ Wraps(mid, base)
                  /\ \A i \in DOMAIN funs[base].closure : ~callable(funs[base].closure[i])
                  /\ DefinedIn(root, d1)
                  /\ DefinedIn(mid, d2)
                  /\ CodeSet(d1) \cap CodeSet(d2) = {}
                  /\ CodeSet(base) \cap (CodeSet(d1) \cup CodeSet(d2)) = {}

MidOf(root) == funs[root].closure[1]
BaseOf(root) == funs[MidOf(root)].closure[1]

\* the decorators of an annotated chain, position by position
Annotations(chain) == [j \in 1..Len(chain) |-> chain[j][2]]

\* an annotated result with each frame replaced by its function
Shape(res) ==
    [i \in 1..Len(res) |->
        LET chain == res[i]
        IN  [j \in 1..Len(chain) |-> LET pair == chain[j] IN <<pair[1].fun, pair[2]>>]]

C6_DecoratorOrderIrrelevant ==
    op = "unwrap_decorators" =>
        /\ \A p \in Perms(arg) \ {arg} :
               Shape(unwrap_decorators(frame, p)) = Shape(result)
        /\ \A d1, d2 \in Range(arg) :
               (arg \in {<<d1, d2>>, <<d2, d1>>} /\ Chained(frame.fun, d1, d2))
                   => Shape(result) = << << <<frame.fun, d1>>,
                                            <<MidOf(frame.fun), d2>>,
                                            <<BaseOf(frame.fun), None>> >> >>

C6_Witness ==
    /\ op = "unwrap_decorators"
    /\ \E d1, d2 \in 1..Len(funs) : arg = <<d2, d1>> /\ Chained(frame.fun, d1, d2)

\* C7: for d1(d2(base)), unwrap_decorators([d2]) annotates the chain None, d2,
\* None and unwrap_decorators([d1]) annotates it d1, None, None.
C7_OnlyOwnWrapperAttributed ==
    op = "unwrap_decorators" =>
        \A d1, d2 \in 1..Len(funs) :
            Chained(frame.fun, d1, d2) =>
                /\ arg = <<d2>> =>
                       /\ Len(result) = 1
                       /\ Annotations(result[1]) = <<None, d2, None>>
                /\ arg = <<d1>> =>
                       /\ Len(result) = 1
                       /\ Annotations(result[1]) = <<d1, None, None>>

\* C8: find_decorator pops the frames of the tree level by level, and yields
\* (frame, code) for each popped frame whose function reaches a code of the
\* decorator, once, with the first such code in the order of extraction; so
\* d1 sought in d1(d2(base)) gives the outer frame alone, and d1 sought in
\* d2(d1(base)) gives the outer frame, then the inner one.
C8_FindDecoratorBreadthFirst ==
    op = "find_decorator" =>
        LET codes == CodeSet(arg[1])
            order == LevelOrder(<<frame>>)
            Reaches(fr) == CodeSet(fr.fun) \cap codes # {}
            matching == SelectSeq(visited, Reaches)
            First(fr) == LET ex == extract_code_objects(fr.fun)
                         IN  ex[Min({k \in DOMAIN ex : ex[k] \in codes})]
        IN  /\ Len(visited) <= Len(order)
            /\ visited = SubSeq(order, 1, Len(visited))
            /\ visited \o all_frames = SubSeq(order, 1, Len(visited) + Len(all_frames))
            /\ all_frames = <<>> => Len(visited) = Len(order)
            /\ { fr.id : fr \in Range(order) } = { fr.id : fr \in AllFrames(frame) }
            /\ Len(order) = Cardinality(AllFrames(frame))
            /\ result = [k \in 1..Len(matching) |-> <<matching[k], First(matching[k])>>]
            /\ all_frames = <<>> =>
                   \A d1, d2 \in 1..Len(funs) :
                       /\ (Chained(frame.fun, d1, d2) /\ arg = <<d1>>)
                              => result = << <<frame, funs[frame.fun].code>> >>
                       /\ (Chained(frame.fun, d2, d1) /\ arg = <<d1>>)
                              => /\ Len(result) = 2
                                 /\ result[1] = <<frame, funs[MidOf(frame.fun)].code>>
                                 /\ result[2][1].fun = MidOf(frame.fun)
                                 /\ result[2][1] \in Range(DictValues(frame.subframes))
                                 /\ result[2][2] = funs[MidOf(frame.fun)].code

C8_Witness ==
    /\ op = "find_decorator"
    /\ all_frames = <<>>
    /\ \E d1, d2 \in 1..Len(funs) : Chained(frame.fun, d2, d1) /\ arg = <<d1>>
    /\ Len(result) = 2
    /\ Len(visited) = 3

\* C9: two Frames compare equal exactly when they are built from the same
\* function; so the chain unwrap yields on a terminal frame f equals [f].
C9_FrameEqualityIsFunctionEquality ==
    /\ op = "Frame" => (FrameEq(result[1], frame) <=> result[1].fun = frame.fun)
    /\ (op = "unwrap" /\ Terminal(frame)) =>
           /\ Len(result) = 1
           /\ Len(result[1]) = 1
           /\ FrameEq(result[1][1], frame)

\* C10: in every Frame of the tree the keys of context and of subframes are
\* disjoint, and context holds only values that are not callable.
C10_ContextAndSubframesDisjoint ==
    frame # <<>> =>
        \A fr \in AllFrames(frame) :
            /\ DOMAIN fr.context \cap DOMAIN fr.subframes = {}
            /\ \A n \in DOMAIN fr.context : ~callable(fr.context[n])

\* the frames a state holds that the constructor built: those of the tree of
\* self, and those of the Frame built by the call last made
BuiltFrames ==
    (IF frame = <<>> THEN {} ELSE AllFrames(frame))
    \cup (IF op = "Frame" THEN AllFrames(result[1]) ELSE {})

\* C11: in every Frame the constructor built, the keys of context and of
\* subframes together are the free variable names of the function's code, the
\* keys of subframes are the names of the cells that hold a callable, and the
\* subframe under a name is a Frame over the callable that cell holds.
C11_KeysAreFreeVariables ==
    \A fr \in BuiltFrames :
        LET names == co_freevars(funs[fr.fun].code)
            closure == funs[fr.fun].closure
        IN  /\ DOMAIN fr.context \cup DOMAIN fr.subframes = Range(names)
            /\ DOMAIN fr.subframes
                   = { names[i] : i \in {j \in DOMAIN names : callable(closure[j])} }
            /\ \A i \in DOMAIN names :
                   callable(closure[i]) =>
                       /\ fr.subframes[names[i]].fun = closure[i]
                       /\ fr.subframes[names[i]] \in BuiltFrames

\* a frame over two cells, one callable and one not, whose subframe has a
\* subframe of its own
C11_Witness ==
    /\ frame # <<>>
    /\ Cardinality(DOMAIN frame.context) = 2
    /\ Cardinality(DOMAIN frame.subframes) = 1
    /\ \E n \in DOMAIN frame.subframes : DOMAIN frame.subframes[n].subframes # {}

\* function f is on a cycle of captures, or captures a function that is
RECURSIVE ReachesCycle(_, _)
ReachesCycle(f, path) ==
    \/ f \in path
    \/ \E i \in DOMAIN funs[f].closure :
           /\ callable(funs[f].closure[i])
           /\ ReachesCycle(funs[f].closure[i], path \cup {f})

\* C12: extraction and Frame construction over a function whose captures
\* hold a cycle never enter a function they are already in (the calls in
\* progress are over distinct functions) and never end in RecursionError:
\* the only failure is the detection of the cycle.
C12_CyclicCaptureDetected ==
    (op \in {"extract_code_objects", "Frame.__init__"} /\ ReachesCycle(arg[1], {})) =>
        /\ \A i, j \in DOMAIN stack : stack[i].fun = stack[j].fun => i = j
        /\ pc \in {"run", "cyclic capture detected"}

\* the codes nested directly in a code
NestedIn(code) == Range(SelectSeq(co_consts(code), IsCode))

\* a code and every code transitively nested in it
RECURSIVE Bodies(_)
Bodies(code) == {code} \cup UNION { Bodies(c) : c \in NestedIn(code) }

\* how many codes an extraction of function f yields
RECURSIVE TotalLen(_)
RECURSIVE TotalLenFrom(_, _)
TotalLenFrom(closure, i) ==
    IF i > Len(closure) THEN 0
    ELSE (IF callable(closure[i]) THEN TotalLen(closure[i]) ELSE 0)
         + TotalLenFrom(closure, i + 1)
TotalLen(f) == Cardinality(Bodies(funs[f].code)) + TotalLenFrom(funs[f].closure, 1)

\* seq is: the code of f, then the codes nested in it, each after the one it
\* is nested in, then for each callable cell in order a sequence that is in
\* turn as described for the function the cell holds
RECURSIVE Described(_, _)
Described(f, seq) ==
    LET code == funs[f].code
        closure == funs[f].closure
        n == Cardinality(Bodies(code))
        start(i) == n + TotalLenFrom(SubSeq(closure, 1, i - 1), 1)
    IN  /\ Len(seq) = TotalLen(f)
        /\ seq[1] = code
        /\ { seq[k] : k \in 1..n } = Bodies(code)
        /\ \A j, k \in 1..n : seq[k] \in NestedIn(seq[j]) => j < k
        /\ \A i \in DOMAIN closure :
               callable(closure[i]) =>
                   Described(closure[i],
                             SubSeq(seq, start(i) + 1, start(i) + TotalLen(closure[i])))

\* the number of capture paths from function f to a function whose body
\* holds code c (f itself counts for one)
RECURSIVE CapturePaths(_, _)
CapturePaths(f, c) ==
    LET closure == funs[f].closure
        RECURSIVE From(_)
        From(i) == IF i > Len(closure) THEN 0
                   ELSE (IF callable(closure[i]) THEN CapturePaths(closure[i], c) ELSE 0)
                        + From(i + 1)
    IN  (IF c \in Bodies(funs[f].code) THEN 1 ELSE 0) + From(1)

Count(seq, c) == Cardinality({k \in DOMAIN seq : seq[k] = c})

\* C13: on a function whose captures hold no cycle, extract_code_objects
\* yields its own code, then the codes nested in it, each after the code it
\* is nested in, then for each callable cell in order the whole extraction of
\* the function it holds, nothing left out and nothing merged: one code for
\* a function with no nested code and no capture, two for one nested code
\* and no capture, and a code reachable along k capture paths k times.
C13_ExtractionOrderAndCounts ==
    (op = "extract_code_objects" /\ pc = "done") =>
        LET f == arg[1]
            own == NestedIn(funs[f].code)
            captures == {i \in DOMAIN funs[f].closure : callable(funs[f].closure[i])}
        IN  /\ ~ReachesCycle(f, {})
            /\ Described(f, result)
            /\ result = extract_code_objects(f)
            /\ \A c \in Codes : Count(result, c) = CapturePaths(f, c)
            /\ (own = {} /\ captures = {}) => Len(result) = 1
            /\ (Cardinality(own) = 1 /\ captures = {}
                    /\ \A c \in own : NestedIn(c) = {}) => Len(result) = 2

\* an extraction that is over, of a function that reaches one code along
\* two capture paths and captures a function with nested code
C13_Witness ==
    /\ op = "extract_code_objects"
    /\ pc = "done"
    /\ \E c \in Codes : Count(result, c) = 2
    /\ \E c \in Range(result) : c # result[1] /\ NestedIn(c) # {}

\* C14: no call of unwrap, unwrap_decorators or find_decorator, and no step
\* of them, changes fun, context or subframes of a frame of the tree, and a
\* call of unwrap yields the chains of the call of unwrap before it: as many,
\* each over the same functions in the same positions.
C14_ReadOnlyRestartable ==
    [][ /\ frame' = frame
        /\ (op' = "unwrap" /\ previous # <<>>) => ChainFuns(result') = previous ]_vars

\* a second call of unwrap, on a frame that gives two chains
C14_Witness ==
    /\ op = "unwrap"
    /\ previous # <<>>
    /\ Len(result) = 2

\* C15: function_name is <external/internal> exactly when the name of the
\* code differs from the name of the function, and the name alone otherwise:
\* <base_fun/wrapped1> for the wrapper that took the name of base_fun,
\* wrapped2 for a wrapper that kept its own.
C15_FunctionNameDualForm ==
    op = "function_name" =>
        LET internal == co_name(funs[frame.fun].code)
            external == fun_name(frame.fun)
        IN  /\ internal # external <=> Len(result) = 5
            /\ internal # external => result = <<"<", external, "/", internal, ">">>
            /\ internal = external => result = <<external>>
            /\ funs[frame.fun] = [code |-> "wrapped1", closure |-> <<3>>]
                   => result = <<"<", "base_fun", "/", "wrapped1", ">">>
            /\ funs[frame.fun].code = "wrapped2" => result = <<"wrapped2">>

\* the name of a wrapper that took the name of the wrapper it wraps, which
\* kept its own
C15_Witness ==
    /\ op = "function_name"
    /\ result = <<"<", "wrapped2", "/", "wrapped1", ">">>

\* C16: what find_decorator has yielded is closed upward in the tree: every
\* ancestor of a yielded frame, up to the root, was yielded before it, since
\* the codes reachable from a frame's function include those reachable from
\* each function it captures; so the first frame yielded, if any, is the root.
C16_FindDecoratorUpwardClosed ==
    op = "find_decorator" =>
        /\ \A k \in DOMAIN result :
               LET id == result[k][1].id
               IN  \A n \in 1..(Len(id) - 1) :
                       \E j \in 1..(k - 1) : result[j][1].id = SubSeq(id, 1, n)
        /\ result # <<>> => FrameEq(result[1][1], frame)
        /\ \A fr \in AllFrames(frame) : \A n \in DOMAIN fr.subframes :
               CodeSet(fr.subframes[n].fun) \subseteq CodeSet(fr.fun)

\* a search that is over: a subframe was yielded after the root, and some
\* frame was not
C16_Witness ==
    /\ op = "find_decorator"
    /\ all_frames = <<>>
    /\ \E k \in DOMAIN result : Len(result[k][1].id) = 2
    /\ Len(result) < Len(visited)

\* C17: at every step of map_code_objects the ambiguous set keeps its
\* members, a code in it is not a key of the map after the step, a key that
\* stays a key stays mapped to the same function, and a key that is removed
\* is in the ambiguous set from then on.
C17_AmbiguityPermanent ==
    [][ /\ ambiguous_code \subseteq ambiguous_code'
        /\ \A code \in ambiguous_code : code \notin DOMAIN code_to_function'
        /\ \A code \in DOMAIN code_to_function :
               /\ code \in DOMAIN code_to_function'
                      => code_to_function'[code] = code_to_function[code]
               /\ code \notin DOMAIN code_to_function' => code \in ambiguous_code' ]_vars

\* a code that is ambiguous already is yielded again, by another function
\* than the one that made it ambiguous, while the map has keys
C17_Witness ==
    /\ pc = "run"
    /\ pending # <<>>
    /\ Head(pending) \in ambiguous_code
    /\ fi = 2
    /\ functions[1] # functions[2]
    /\ DOMAIN code_to_function # {}

----------------------------------------------------------------------------
DictOrders == { <<"decorated_fun", "alt_enclosed_fun", "enclosed_fun">>,
                <<"decorated_fun", "enclosed_fun", "alt_enclosed_fun">> }

FrameIdle ==
    /\ frame = <<>>
    /\ op = "none"
    /\ arg = <<>>
    /\ result = <<>>
    /\ all_frames = <<>>
    /\ visited = <<>>
    /\ previous = <<>>
    /\ stack = <<>>

Init ==
    /\ funs \in Worlds(MaxClosures)
    /\ dict_order = <<"decorated_fun", "alt_enclosed_fun", "enclosed_fun">>
    /\ functions \in FunctionLists(funs, MaxDecorators)
    /\ fi = 0
    /\ pending = <<>>
    /\ code_to_function = EmptyDict
    /\ ambiguous_code = {}
    /\ pc = "run"
    /\ FrameIdle

Next == ForFunction \/ ForCode \/ Return

Spec == Init /\ [][Next]_vars

\* a Frame built over the function created last, no method called yet
InitFrame ==
    /\ funs \in Worlds(MaxClosures)
    /\ dict_order \in DictOrders
    /\ frame = Frame(Len(funs), <<"f">>)
    /\ op = "none"
    /\ arg = <<>>
    /\ result = <<>>
    /\ all_frames = <<>>
    /\ visited = <<>>
    /\ previous = <<>>
    /\ stack = <<>>
    /\ functions = <<>>
    /\ fi = 0
    /\ pending = <<>>
    /\ code_to_function = EmptyDict
    /\ ambiguous_code = {}
    /\ pc = "done"

\* functions whose captures hold a cycle, created after n others: a local
\* function that returns itself, two local functions that return each other,
\* and a function that closes over base_fun and one of the two
Cyclic(n) ==
    << [code |-> "wrapped1", closure |-> <<n + 1>>],
       [code |-> "wrapped1", closure |-> <<n + 3>>],
       [code |-> "wrapped2", closure |-> <<n + 2>>],
       [code |-> "dual_fun", closure |-> <<3, n + 2>>] >>

\* the arenas with the cyclic functions added
CyclicWorlds == { w \o Cyclic(Len(w)) : w \in Worlds(MaxClosures) }

\* no call made yet, on an arena that holds cycles
InitRecursion ==
    /\ funs \in CyclicWorlds
    /\ dict_order = <<"decorated_fun", "alt_enclosed_fun", "enclosed_fun">>
    /\ functions = <<>>
    /\ fi = 0
    /\ pending = <<>>
    /\ code_to_function = EmptyDict
    /\ ambiguous_code = {}
    /\ pc = "done"
    /\ FrameIdle

NextRecursion ==
    \/ CallExtract
    \/ ExtractCell
    \/ ExtractReturn
    \/ CallInit
    \/ InitCell
    \/ InitReturn
    \/ RecursionError

SpecRecursion == InitRecursion /\ [][NextRecursion]_vars

\* the methods of one Frame called one after the other, any number of times
NextRestart ==
    \/ CallUnwrap
    \/ CallUnwrapDecorators
    \/ CallFindDecorator
    \/ FindDecoratorStep
    \/ Consumed

SpecRestart == InitFrame /\ [][NextRestart]_vars

NextFrame ==
    \/ CallFrame
    \/ GetFunctionName
    \/ CallUnwrap
    \/ CallUnwrapDecorators
    \/ CallFindDecorator
    \/ FindDecoratorStep
    \/ Drop

SpecFrame == InitFrame /\ [][NextFrame]_vars

====
